---- MODULE Spec2Model ----
(***************************************************************************)
(* A model of dalmatian's WorkspaceManager (src/dalmatian/core.py):        *)
(*   - get_stats: reconciliation of the attempts of one task of one        *)
(*     execution into final and preempted attempts, and the task's row;    *)
(*   - get_sample_status / get_sample_set_status: resolution of the latest *)
(*     execution per entity from the submission history;                   *)
(*   - patch_attributes: repair of entity attributes from the latest       *)
(*     execution's metadata.                                               *)
(* and of the lapdog command line over it (src/dalmatian/lapdog.py):       *)
(*   - get_stats over the executions of its argument (SpecRows);           *)
(*   - cmd_submissions (SpecSubmissions);                                  *)
(*   - invocations of cmd_add_workspace, cmd_exec and cmd_run side by      *)
(*     side on one data file (SpecCli, and SpecCliFair for liveness).      *)
(* Each part has its own specification (SpecStats and SpecCost for         *)
(* get_stats, SpecResolve, SpecPatch); the variables of the other parts    *)
(* stay at their idle values.                                              *)
(***************************************************************************)
EXTENDS Integers, Sequences, FiniteSets, TLC

VARIABLES
    \* get_stats, one task t of one execution i
    calls,          \* metadata_dict[i]['calls'][t]: the task's attempts, in list order
    successes,      \* successes: shard index -> position in calls of the attempt kept
    preemptions,    \* preemptions: positions in calls, in append order
    task_row,       \* task_dfs[task_name].loc[i]: the columns written for the task
    stats_pc,       \* "idle" | "start" | "done" | "assert" | "keyerror" | "returned" | "typeerror"
    pending,        \* the attempt lists of the tasks of execution i still to process
    task_dfs,       \* the rows of the tasks processed so far, in task order
    exec_calls,     \* metadata_dict[i]['calls']: the attempt lists of the tasks, in task order
    totals,         \* workflow_status_df.loc[i]: est_cost and cpu_hours of the execution
    \* get_sample_status / get_sample_set_status
    history,        \* the platform's submissions, as list_submissions returns them
    configuration,  \* the configuration argument (the filter)
    res_fn,         \* "sample": get_sample_status, "sample_set": get_sample_set_status
    submissions,    \* the local list after the filter of line 409 / 463
    res_k,          \* submissions[1..res_k] have been processed by the loop
    sample_dict,    \* sample_dict / sample_set_dict: entity name -> record
    res_pc,         \* "idle" | "list" | "loop" | "done" | "assert" | "valueerror" | "keyerror"
    \* patch_attributes
    attrs,          \* the platform's entities of the patched type: name -> column -> value
    metadata,       \* the platform's workflow metadata: submission id -> metadata
    dry_run,        \* the dry_run argument
    entity,         \* the entity argument: "sample" | "sample_set"
    patch_run,      \* the number of the current call of patch_attributes
    ended,          \* how each earlier call ended
    incomplete_df,  \* incomplete_df: name -> column -> value, as read at the call's start
    status_df,      \* sample_status_df / sample_set_status_df
    todo,           \* the names the patching loop goes through, in order
    patch_n,        \* todo[1..patch_n] have been processed
    task_counts,    \* task_counts: task name -> count
    writes,         \* every update_entity call issued, in order
    steps,          \* every pass of the patching loop, in order
    patch_pc,       \* "idle" | "start" | "loop" | "done" | "assert" | "write_assert" | "keyerror" | "valueerror"
    \* get_stats, the executions of its argument status_df
    status_rows,    \* status_df: the rows of the argument, in index order
    wf_todo,        \* the workflow names `for w in np.unique(workflows)` has left
    workflow_status_df,  \* workflow_status_df: the ids of its rows, or Unbound
    rows_pc,        \* "idle" | "fetch" | "workflows" | "returned" | "assert" | "unbound"
    \* lapdog submissions (lapdog.py cmd_submissions)
    listed,         \* the platform's submissions, as list_submissions returns them
    sub_args,       \* args: done, id, config, entity
    displayed,      \* the submission ids of the frame printed
    sub_pc,         \* "idle" | "start" | "printed" | "assert" | "keyerror"
    \* lapdog invocations running side by side (lapdog.py)
    data_file,      \* ~/.lapdog: Missing, Partial (opened for writing, not yet written) or its contents
    awaited,        \* the platform's submission that --after names: status and workflows
    accepted,       \* the invocations whose create_submission the platform answered 201
    cmd,            \* invocation -> its command and arguments
    cli_pc,         \* invocation -> position
    cli_data,       \* invocation -> data, the contents it loaded
    cli_after,      \* invocation -> args.after
    cli_count,      \* invocation -> count of the wait loop it is in
    cli_seen        \* invocation -> running and succeeded, as last computed

stats_vars == <<calls, successes, preemptions, task_row, stats_pc, pending, task_dfs,
                exec_calls, totals>>

res_vars == <<history, configuration, res_fn, submissions, res_k, sample_dict, res_pc>>

res_loop_vars == <<res_fn, submissions, res_k, sample_dict, res_pc>>

patch_vars == <<attrs, metadata, dry_run, entity, patch_run, ended, incomplete_df,
                status_df, todo, patch_n, task_counts, writes, steps, patch_pc>>

rows_vars == <<status_rows, wf_todo, workflow_status_df, rows_pc>>

sub_vars == <<listed, sub_args, displayed, sub_pc>>

cli_vars == <<data_file, awaited, accepted, cmd, cli_pc, cli_data, cli_after, cli_count, cli_seen>>

\* the variables of the parts added to the first three
rest_vars == <<rows_vars, sub_vars, cli_vars>>

vars == <<calls, successes, preemptions, task_row, stats_pc, pending, task_dfs,
          exec_calls, totals,
          history, configuration, res_fn, submissions, res_k, sample_dict, res_pc,
          attrs, metadata, dry_run, entity, patch_run, ended, incomplete_df,
          status_df, todo, patch_n, task_counts, writes, steps, patch_pc,
          status_rows, wf_todo, workflow_status_df, rows_pc,
          listed, sub_args, displayed, sub_pc,
          data_file, awaited, accepted, cmd, cli_pc, cli_data, cli_after, cli_count, cli_seen>>

----------------------------------------------------------------------------
(* Bounds of the model *)

MaxAttempts == 4    \* longest attempt list of a task
NumShards == 2      \* shard indices are 0 .. NumShards-1
MaxDur == 2         \* longest attempt, in half hours
MaxSubs == 2        \* longest submission history
MaxTs == 2          \* submission timestamps are 1 .. MaxTs
MaxPatchSubs == 2   \* longest submission history patch_attributes is run on
MaxRuns == 2        \* calls of patch_attributes in a row
MaxCostAttempts == 2  \* longest attempt list of a task whose cost is computed
MaxCostDur == 5     \* longest attempt of such a task, in half hours
MaxPreemptDur == 2  \* longest preempted attempt of such a task, in half hours
MaxQuota == 1       \* longest wait for quota of an attempt, in half hours

----------------------------------------------------------------------------
(* Helpers *)

RECURSIVE SumSeq(_)
SumSeq(s) == IF s = <<>> THEN 0 ELSE Head(s) + SumSeq(Tail(s))

MaxOf(S) == CHOOSE x \in S : \A y \in S : y <= x

Range(f) == {f[x] : x \in DOMAIN f}

\* a pandas cell that was never assigned
NaN == -1

\* the idle values of the variables of each part
StatsIdle ==
    /\ calls = <<>>
    /\ successes = <<>>
    /\ preemptions = <<>>
    /\ task_row = <<>>
    /\ stats_pc = "idle"
    /\ pending = <<>>
    /\ task_dfs = <<>>
    /\ exec_calls = <<>>
    /\ totals = <<>>

ResIdle ==
    /\ history = <<>>
    /\ configuration = <<>>
    /\ res_fn = "sample"
    /\ submissions = <<>>
    /\ res_k = 0
    /\ sample_dict = <<>>
    /\ res_pc = "idle"

PatchIdle ==
    /\ attrs = <<>>
    /\ metadata = <<>>
    /\ dry_run = FALSE
    /\ entity = "sample"
    /\ patch_run = 0
    /\ ended = <<>>
    /\ incomplete_df = <<>>
    /\ status_df = <<>>
    /\ todo = <<>>
    /\ patch_n = 0
    /\ task_counts = <<>>
    /\ writes = <<>>
    /\ steps = <<>>
    /\ patch_pc = "idle"

RowsIdle ==
    /\ status_rows = <<>>
    /\ wf_todo = <<>>
    /\ workflow_status_df = <<>>
    /\ rows_pc = "idle"

SubIdle ==
    /\ listed = <<>>
    /\ sub_args = <<>>
    /\ displayed = <<>>
    /\ sub_pc = "idle"

CliIdle ==
    /\ data_file = <<>>
    /\ awaited = <<>>
    /\ accepted = {}
    /\ cmd = <<>>
    /\ cli_pc = <<>>
    /\ cli_data = <<>>
    /\ cli_after = <<>>
    /\ cli_count = <<>>
    /\ cli_seen = <<>>

----------------------------------------------------------------------------
(* Time model: core.py convert_time, workflow_time *)

SecondsPerHour == 3600

\* timestamps are whole half hours since the epoch
TicksPerHour == 2

SecondsPerTick == SecondsPerHour \div TicksPerHour

\* convert_time gives the seconds since the epoch
convert_time(x) == x * SecondsPerTick

\* seconds/3600: the hours, held as a count of half hours
Hours(sec) == (sec * TicksPerHour) \div SecondsPerHour

\* every attempt of a Succeeded execution has ended, so 'end' is present
workflow_time(w) == convert_time(w.end) - convert_time(w.start)

----------------------------------------------------------------------------
(* get_stats: attempt reconciliation, core.py 732-744 *)

\* the key 'shardIndex' is absent from the attempt
NoShard == -1

\* 'shardIndex' in metadata_dict[i]['calls'][t][0]
IsScatter(cs) == cs[1].shard # NoShard

\* for j in calls: successes[j['shardIndex']] = j, over the first k attempts
RECURSIVE ScatterSuccesses(_, _)
ScatterSuccesses(cs, k) ==
    IF k = 0 THEN <<>>
    ELSE LET prev == ScatterSuccesses(cs, k - 1)
         IN  [s \in DOMAIN prev \cup {cs[k].shard} |->
                 IF s = cs[k].shard THEN k ELSE prev[s]]

\* ScatterPreemptions with the membership test made after the store of line 740:
\* every attempt is then found in successes
RECURSIVE ScatterPreemptionsAfterStore(_, _)
ScatterPreemptionsAfterStore(cs, k) ==
    IF k = 0 THEN <<>>
    ELSE LET prev == ScatterPreemptionsAfterStore(cs, k - 1)
         IN  IF cs[k].shard \in DOMAIN ScatterSuccesses(cs, k)
             THEN Append(prev, k)
             ELSE prev

\* if j['shardIndex'] in successes: preemptions.append(j), over the first k attempts
RECURSIVE ScatterPreemptions(_, _)
ScatterPreemptions(cs, k) ==
    IF k = 0 THEN <<>>
    ELSE LET prev == ScatterPreemptions(cs, k - 1)
         IN  IF cs[k].shard \in DOMAIN ScatterSuccesses(cs, k - 1)
             THEN Append(prev, k)
             ELSE prev

\* PlainSuccesses keeping the first attempt, calls[0], instead of the last
PlainSuccessesFirst(cs) == [s \in {0} |-> 1]

\* successes[0] = calls[-1]
PlainSuccesses(cs) == [s \in {0} |-> Len(cs)]

\* preemptions = calls[:-1]
PlainPreemptions(cs) == [k \in 1..(Len(cs) - 1) |-> k]

Successes(cs) ==
    IF IsScatter(cs) THEN ScatterSuccesses(cs, Len(cs)) ELSE PlainSuccesses(cs)

Preemptions(cs) ==
    IF IsScatter(cs) THEN ScatterPreemptions(cs, Len(cs)) ELSE PlainPreemptions(cs)

----------------------------------------------------------------------------
(* get_stats: the task's row, core.py 746-761 *)

QuotaDescription == "waiting for quota"

\* QuotaHours with no event recognised as a wait for quota
QuotaHoursNone(a) == 0

\* [e for m in successes.values() for e in m['executionEvents']
\*    if e['description']=='waiting for quota'], each as endTime - startTime in hours
QuotaHours(a) ==
    LET ev == a.executionEvents
    IN  SumSeq([k \in 1..Len(ev) |->
            IF ev[k].description = QuotaDescription
            THEN Hours(convert_time(ev[k].endTime) - convert_time(ev[k].startTime))
            ELSE 0])

\* np.sum(quota_time): over the attempts kept in successes
QuotaSum(cs, succ) ==
    LET kept == Range(succ)
    IN  SumSeq([k \in 1..Len(cs) |-> IF k \in kept THEN QuotaHours(cs[k]) ELSE 0])

\* np.sum([workflow_time(j)/3600 for j in successes.values()]) - np.sum(quota_time)
TimeH(cs, succ) ==
    LET kept == Range(succ)
    IN  SumSeq([k \in 1..Len(cs) |->
            IF k \in kept THEN Hours(workflow_time(cs[k])) ELSE 0])
        - QuotaSum(cs, succ)

\* TotalTimeH over the attempts kept in successes only
TotalTimeHFinalOnly(cs, succ) == TimeH(cs, succ)

\* np.sum(total_time_h) - np.sum(quota_time)
TotalTimeH(cs, succ) ==
    SumSeq([k \in 1..Len(cs) |-> Hours(workflow_time(cs[k]))])
    - QuotaSum(cs, succ)

\* AnyHit with no attempt recognised as a cache hit
AnyHitNever(cs) == FALSE

\* np.any(['hit' in j['callCaching'] and j['callCaching']['hit'] for j in calls])
AnyHit(cs) == \E k \in 1..Len(cs) : cs[k].hit

\* np.max([workflow_time(t_attempt) for t_attempt in preemptions])/3600
MaxPreemptTimeH(cs, pre) ==
    Hours(MaxOf({workflow_time(cs[pre[k]]) : k \in 1..Len(pre)}))

\* the assert of line 759 fails: a preemption was counted and the first attempt
\* did not run on a preemptible machine
PreemptAssertFails(cs, pre) ==
    /\ ~AnyHit(cs)
    /\ Len(pre) > 0
    /\ ~cs[1].preemptible

----------------------------------------------------------------------------
(* get_vm_cost (core.py 1337-1392) and the cost columns of get_stats *)

\* prices are held as a count of 1/10000 of the currency unit
PriceScale == 10000

\* preemptible_dict and standard_dict: a machine type name is the sequence of its
\* components between dashes; each entry is <<name, preemptible price, standard price>>
VmPrices ==
    {<<<<"n1", "standard", "1">>, 100, 475>>,   <<<<"n1", "standard", "2">>, 200, 950>>,
     <<<<"n1", "standard", "4">>, 400, 1900>>,  <<<<"n1", "standard", "8">>, 800, 3800>>,
     <<<<"n1", "standard", "16">>, 1600, 7600>>, <<<<"n1", "standard", "32">>, 3200, 15200>>,
     <<<<"n1", "standard", "64">>, 6400, 30400>>,
     <<<<"n1", "highmem", "2">>, 250, 1184>>,   <<<<"n1", "highmem", "4">>, 500, 2368>>,
     <<<<"n1", "highmem", "8">>, 1000, 4736>>,  <<<<"n1", "highmem", "16">>, 2000, 9472>>,
     <<<<"n1", "highmem", "32">>, 4000, 18944>>, <<<<"n1", "highmem", "64">>, 8000, 37888>>,
     <<<<"n1", "highcpu", "2">>, 150, 709>>,    <<<<"n1", "highcpu", "4">>, 300, 1418>>,
     <<<<"n1", "highcpu", "8">>, 600, 2836>>,   <<<<"n1", "highcpu", "16">>, 1200, 5672>>,
     <<<<"n1", "highcpu", "32">>, 2400, 11344>>, <<<<"n1", "highcpu", "64">>, 4800, 22688>>,
     <<<<"f1", "micro">>, 35, 76>>,             <<<<"g1", "small">>, 70, 257>>}

preemptible_dict == [m \in {e[1] : e \in VmPrices} |-> (CHOOSE e \in VmPrices : e[1] = m)[2]]

standard_dict == [m \in {e[1] : e \in VmPrices} |-> (CHOOSE e \in VmPrices : e[1] = m)[3]]

\* get_vm_cost with the two dictionaries exchanged
get_vm_cost_swapped(machine_type, preemptible) ==
    IF preemptible THEN standard_dict[machine_type] ELSE preemptible_dict[machine_type]

get_vm_cost(machine_type, preemptible) ==
    IF preemptible THEN preemptible_dict[machine_type] ELSE standard_dict[machine_type]

\* j['jes']['machineType'].rsplit('/')[-1]: the machine type is a path, the sequence
\* of its components between slashes
MachineTypes(cs) == [k \in 1..Len(cs) |-> cs[k].machineType[Len(cs[k].machineType)]]

\* total_time_h as the list of line 753: the wall time of each attempt
TotalTimeList(cs) == [k \in 1..Len(cs) |-> Hours(workflow_time(cs[k]))]

\* np.sum([get_vm_cost(m,p)*h for h,m,p in zip(total_time_h, machine_types, was_preemptible)])
EstCost(cs) ==
    SumSeq([k \in 1..Len(cs) |->
        get_vm_cost(MachineTypes(cs)[k], cs[k].preemptible) * TotalTimeList(cs)[k]])

\* preemptible_dict[machine_type] / standard_dict[machine_type] raises KeyError for
\* an attempt of the task: the machine type is not in the table
VmCostRaises(cs) ==
    \E k \in 1..Len(cs) : MachineTypes(cs)[k] \notin DOMAIN preemptible_dict

\* the value of a decimal numeral, int(...)
IntOf(token) ==
    CASE token = "1" -> 1 [] token = "2" -> 2 [] token = "4" -> 4 [] token = "8" -> 8
      [] token = "16" -> 16 [] token = "32" -> 32 [] token = "64" -> 64

\* '-small' in i, '-micro' in i: the component follows a dash
HasComponent(mt, c) == \E k \in 2..Len(mt) : mt[k] = c

\* int(i.rsplit('-',1)[-1]) if ('-small' not in i and '-micro' not in i) else 1
Cores(mt) ==
    IF ~HasComponent(mt, "small") /\ ~HasComponent(mt, "micro") THEN IntOf(mt[Len(mt)]) ELSE 1

\* a cell of an object column that was never assigned
NoMachine == <<>>

EmptyRow ==
    [time_h |-> NaN, total_time_h |-> NaN, max_preempt_time_h |-> NaN, attempts |-> NaN,
     machine_type |-> NoMachine, est_cost |-> NaN]

\* the row of the task as get_stats leaves it (up to the assert, when it fails)
TaskRow(cs, succ, pre) ==
    [time_h |-> TimeH(cs, succ),
     total_time_h |-> TotalTimeH(cs, succ),
     max_preempt_time_h |->
        IF ~AnyHit(cs) /\ Len(pre) > 0 /\ cs[1].preemptible
        THEN MaxPreemptTimeH(cs, pre) ELSE NaN,
     attempts |->
        IF ~AnyHit(cs) /\ ~PreemptAssertFails(cs, pre) THEN Len(cs) ELSE NaN,
     machine_type |->
        IF ~AnyHit(cs) /\ ~PreemptAssertFails(cs, pre)
        THEN MachineTypes(cs)[Len(cs)] ELSE NoMachine,
     est_cost |->
        IF ~AnyHit(cs) /\ ~PreemptAssertFails(cs, pre) /\ ~VmCostRaises(cs)
        THEN EstCost(cs) ELSE NaN]

\* how the loop body ends for the task: the assert of line 759 fails, get_vm_cost
\* raises KeyError at line 768, or the row is written
TaskEnd(cs, pre) ==
    IF PreemptAssertFails(cs, pre) THEN "assert"
    ELSE IF ~AnyHit(cs) /\ VmCostRaises(cs) THEN "keyerror"
    ELSE "done"

\* one pass of the loop body of get_stats for task t and execution i
GetStatsTask ==
    /\ stats_pc = "start"
    /\ successes' = Successes(calls)
    /\ preemptions' = Preemptions(calls)
    /\ task_row' = TaskRow(calls, Successes(calls), Preemptions(calls))
    /\ stats_pc' = TaskEnd(calls, Preemptions(calls))
    /\ task_dfs' = Append(task_dfs, TaskRow(calls, Successes(calls), Preemptions(calls)))
    /\ UNCHANGED <<calls, pending, exec_calls, totals>>
    /\ UNCHANGED res_vars
    /\ UNCHANGED patch_vars
    /\ UNCHANGED rest_vars

\* `for t in tasks`: the next task of the execution
NextTask ==
    /\ stats_pc = "done"
    /\ pending # <<>>
    /\ calls' = Head(pending)
    /\ pending' = Tail(pending)
    /\ successes' = <<>>
    /\ preemptions' = <<>>
    /\ task_row' = EmptyRow
    /\ stats_pc' = "start"
    /\ UNCHANGED <<task_dfs, exec_calls, totals>>
    /\ UNCHANGED res_vars
    /\ UNCHANGED patch_vars
    /\ UNCHANGED rest_vars

\* pd.concat([... ['est_cost'] for t in tasks], axis=1).sum(axis=1): unset cells are skipped
WorkflowEstCost(rows) ==
    SumSeq([k \in 1..Len(rows) |-> IF rows[k].est_cost = NaN THEN 0 ELSE rows[k].est_cost])

\* the lambda of line 775 applied to a cell that was never assigned: TypeError
CoresRaises(rows) == \E k \in 1..Len(rows) : rows[k].machine_type = NoMachine

\* pd.concat([total_time_h * machine_type.apply(...) for t in tasks], axis=1).sum(axis=1)
WorkflowCpuHours(rows) ==
    SumSeq([k \in 1..Len(rows) |-> rows[k].total_time_h * Cores(rows[k].machine_type)])

\* the totals of the execution, lines 773-778
WorkflowTotals ==
    /\ stats_pc = "done"
    /\ pending = <<>>
    /\ IF CoresRaises(task_dfs)
       THEN /\ stats_pc' = "typeerror"
            /\ totals' = [est_cost |-> WorkflowEstCost(task_dfs), cpu_hours |-> NaN]
       ELSE /\ stats_pc' = "returned"
            /\ totals' = [est_cost |-> WorkflowEstCost(task_dfs),
                          cpu_hours |-> WorkflowCpuHours(task_dfs)]
    /\ UNCHANGED <<calls, successes, preemptions, task_row, pending, task_dfs, exec_calls>>
    /\ UNCHANGED res_vars
    /\ UNCHANGED patch_vars
    /\ UNCHANGED rest_vars

----------------------------------------------------------------------------
(* The attempt lists get_stats is run on *)

\* an attempt of a task: Cromwell call metadata, the fields get_stats reads
Zone == <<"us", "central1", "b">>

\* the events of an attempt that waited `quota` half hours for quota before it ran
Events(dur, quota) ==
    IF quota = 0 THEN <<[description |-> "running", startTime |-> 0, endTime |-> dur]>>
    ELSE <<[description |-> QuotaDescription, startTime |-> 0, endTime |-> quota],
           [description |-> "running", startTime |-> quota, endTime |-> dur]>>

MeasuredAttempt(shard, dur, preemptible, hit, machine, quota) ==
    [shard |-> shard, start |-> 0, end |-> dur,
     preemptible |-> preemptible, hit |-> hit,
     machineType |-> <<Zone, machine>>,
     executionEvents |-> Events(dur, quota)]

Attempt(shard, dur, preemptible, hit) ==
    MeasuredAttempt(shard, dur, preemptible, hit, <<"n1", "standard", "1">>, 0)

\* the attempt list of one task: all attempts carry a shard index or none does; the
\* attempts ran all on preemptible machines or all on standard ones; a cache hit,
\* if any, is the last attempt listed
CallList(n, sc, pr, hit, sh, du) ==
    [k \in 1..n |-> Attempt(IF sc THEN sh[k] ELSE NoShard, du[k], pr, hit /\ k = n)]

StatsInit ==
    /\ \E n \in 1..MaxAttempts, sc \in BOOLEAN, pr \in BOOLEAN, hit \in BOOLEAN :
        \E sh \in [1..n -> IF sc THEN 0..(NumShards - 1) ELSE {NoShard}],
           du \in [1..n -> 1..MaxDur] :
            calls = CallList(n, sc, pr, hit, sh, du)
    /\ successes = <<>>
    /\ preemptions = <<>>
    /\ task_row = EmptyRow
    /\ stats_pc = "start"
    /\ pending = <<>>
    /\ task_dfs = <<>>
    /\ exec_calls = <<calls>>
    /\ totals = <<>>
    /\ ResIdle
    /\ PatchIdle
    /\ RowsIdle
    /\ SubIdle
    /\ CliIdle

StatsNext == GetStatsTask

SpecStats == StatsInit /\ [][StatsNext]_vars

----------------------------------------------------------------------------
(* The executions the cost columns of get_stats are computed on *)

\* the machine types the tasks run on; n1-standard-96 is not in the table of get_vm_cost
CostMachines ==
    {<<"n1", "standard", "4">>, <<"n1", "highmem", "2">>, <<"g1", "small">>,
     <<"n1", "standard", "96">>}

\* the attempts of a task without shards: they ran on one machine type, all on
\* preemptible machines or all on standard ones; the attempts before the last were
\* preempted; a cache hit, if any, is the last attempt
CostCallList(n, pr, hit, m, du, qu) ==
    [k \in 1..n |-> MeasuredAttempt(NoShard, du[k], pr, hit /\ k = n, m, qu[k])]

\* the other task of the execution, if it has one: one attempt that ran, or one
\* attempt whose result came from the call cache
OtherTasks ==
    {<<>>}
    \cup {<<<<MeasuredAttempt(NoShard, d, FALSE, FALSE, <<"n1", "highmem", "2">>, 0)>>>> :
            d \in 1..MaxDur}
    \cup {<<<<MeasuredAttempt(NoShard, 1, FALSE, TRUE, <<"n1", "highmem", "2">>, 0)>>>>}

CostInit ==
    /\ \E n \in 1..MaxCostAttempts, pr \in BOOLEAN, hit \in BOOLEAN, m \in CostMachines :
        \E du \in [1..n -> 1..MaxCostDur], qu \in [1..n -> 0..MaxQuota] :
            /\ \A k \in 1..n : qu[k] < du[k]
            /\ \A k \in 1..(n - 1) : du[k] <= MaxPreemptDur
            /\ calls = CostCallList(n, pr, hit, m, du, qu)
    /\ pending \in OtherTasks
    /\ successes = <<>>
    /\ preemptions = <<>>
    /\ task_row = EmptyRow
    /\ stats_pc = "start"
    /\ task_dfs = <<>>
    /\ exec_calls = <<calls>> \o pending
    /\ totals = <<>>
    /\ ResIdle
    /\ PatchIdle
    /\ RowsIdle
    /\ SubIdle
    /\ CliIdle

CostNext ==
    \/ GetStatsTask
    \/ NextTask
    \/ WorkflowTotals

SpecCost == CostInit /\ [][CostNext]_vars

----------------------------------------------------------------------------
(* Claims on the time and cost columns of get_stats (SpecCost) *)

\* the task's row is written
TaskDone == stats_pc = "done"

Attempts == 1..Len(calls)

\* the wall length of attempt k, in half hours
WallOf(k) == calls[k].end - calls[k].start

\* the "waiting for quota" events of attempt k
QuotaEventsOf(k) ==
    {n \in 1..Len(calls[k].executionEvents) :
        calls[k].executionEvents[n].description = "waiting for quota"}

\* the time attempt k spent waiting for quota, in half hours
QuotaWaitOf(k) ==
    LET ev == calls[k].executionEvents
    IN  SumSeq([n \in 1..Len(ev) |->
            IF n \in QuotaEventsOf(k) THEN ev[n].endTime - ev[n].startTime ELSE 0])

\* the machine type name of attempt k and its hourly price in the table
NameOf(k) == calls[k].machineType[2]

PriceOf(k) ==
    LET e == CHOOSE x \in VmPrices : x[1] = NameOf(k)
    IN  IF calls[k].preemptible THEN e[2] ELSE e[3]

\* C13: time_h of a task whose single final attempt has wall length T and holds one
\* "waiting for quota" event of length Q is T - Q, and computing the row of the task
\* leaves the metadata as it was, so that computing it again gives the same row.
C13_TimeNetOfQuota ==
    /\ [](\A f \in Attempts :
            (TaskDone /\ Range(successes) = {f} /\ Cardinality(QuotaEventsOf(f)) = 1) =>
                task_row.time_h = WallOf(f) - QuotaWaitOf(f))
    /\ [][stats_pc = "start" =>
            /\ calls' = calls
            /\ TaskRow(calls', Successes(calls'), Preemptions(calls')) = task_row']_vars

\* a task whose final attempt waited for quota, after a preempted attempt
C13_Witness ==
    /\ TaskDone
    /\ Len(calls) = 2
    /\ Range(successes) = {2}
    /\ Cardinality(QuotaEventsOf(2)) = 1
    /\ QuotaWaitOf(2) > 0
    /\ task_row.time_h = WallOf(2) - QuotaWaitOf(2)

\* a cell as it enters a sum or a count: an unset cell adds nothing
ValueOf(cell) == IF cell = NaN THEN 0 ELSE cell

Returned == stats_pc = "returned"

\* the core count of a machine class: the numeric suffix of its name, 1 for the
\* classes tagged small or micro
CoreCount(m) ==
    IF m[Len(m)] \in {"small", "micro"} THEN 1
    ELSE CHOOSE n \in 1..64 : IntOf(m[Len(m)]) = n

\* the machine class of task cs: that of its last attempt
ClassOf(cs) == cs[Len(cs)].machineType[2]

\* the wall length and the quota wait of attempt k of task cs, in half hours
WallIn(cs, k) == cs[k].end - cs[k].start

QuotaWaitIn(cs, k) ==
    LET ev == cs[k].executionEvents
    IN  SumSeq([n \in 1..Len(ev) |->
            IF ev[n].description = "waiting for quota"
            THEN ev[n].endTime - ev[n].startTime ELSE 0])

\* the billable time of task cs: its final attempts, net of their waits for quota
BillableOf(cs) ==
    LET final == Range(Successes(cs))
    IN  SumSeq([k \in 1..Len(cs) |->
            IF k \in final THEN WallIn(cs, k) - QuotaWaitIn(cs, k) ELSE 0])

\* the time of all attempts of task cs, net of the waits for quota of the final ones
AllAttemptsOf(cs) ==
    LET final == Range(Successes(cs))
    IN  SumSeq([k \in 1..Len(cs) |-> WallIn(cs, k)])
        - SumSeq([k \in 1..Len(cs) |-> IF k \in final THEN QuotaWaitIn(cs, k) ELSE 0])

C16_StandardFourScenario ==
    /\ \A e \in VmPrices :
        /\ get_vm_cost(e[1], TRUE) = e[2]
        /\ get_vm_cost(e[1], FALSE) = e[3]
    /\ (/\ Returned
        /\ Len(exec_calls) = 1
        /\ Len(calls) = 1
        /\ ClassOf(calls) = <<"n1", "standard", "4">>
        /\ calls[1].preemptible
        /\ QuotaWaitOf(1) = 0
        /\ WallOf(1) * 2 = 5 * TicksPerHour)
       => /\ task_row.est_cost * 10 = PriceScale * TicksPerHour
          /\ totals.est_cost * 10 = PriceScale * TicksPerHour
          /\ totals.cpu_hours = 10 * TicksPerHour

C16_Witness ==
    /\ Returned
    /\ Len(exec_calls) = 1
    /\ Len(calls) = 1
    /\ ClassOf(calls) = <<"n1", "standard", "4">>
    /\ calls[1].preemptible
    /\ QuotaWaitOf(1) = 0
    /\ WallOf(1) * 2 = 5 * TicksPerHour
    /\ totals.est_cost = 2000
    /\ totals.cpu_hours = 20

\* the task's attempts ran (none is a cache hit), one of them on a machine class
\* that the price table lacks
UnpricedTask ==
    /\ \A k \in Attempts : ~calls[k].hit
    /\ \E k \in Attempts : \A e \in VmPrices : e[1] # NameOf(k)

\* C22: a task whose machine class is absent from the price table leaves its own
\* cost unset and nothing else: get_stats goes on with the other tasks and returns.
C22_UnpricedTaskNotFatal ==
    (stats_pc # "start" /\ stats_pc # "assert" /\ UnpricedTask) =>
        /\ stats_pc \in {"done", "returned"}
        /\ task_row.est_cost = NaN

\* C12: the estimated cost of a task is the sum over its attempts of the hourly
\* price times the attempt's time net of its waits for quota, so that a longer wait
\* for quota inside an attempt does not change the cost.
C12_CostNetOfQuota ==
    (TaskDone /\ task_row.est_cost # NaN) =>
        task_row.est_cost =
            SumSeq([k \in Attempts |-> PriceOf(k) * (WallOf(k) - QuotaWaitOf(k))])

----------------------------------------------------------------------------
(* Claims on the attempt reconciliation of get_stats (SpecStats) *)

StatsRan == stats_pc \in {"done", "assert"}

\* the attempts kept as final, as positions in calls
FinalSet == Range(successes)

\* the attempts recorded as preempted, as positions in calls
PreemptedSet == Range(preemptions)

\* the shard indices that occur in the attempt list
ShardsOf(cs) == {cs[k].shard : k \in 1..Len(cs)}

\* the attempts of shard s, as positions
OfShard(cs, s) == {k \in 1..Len(cs) : cs[k].shard = s}

\* C2: for a task without shard indices and N >= 1 attempts, exactly one attempt is
\* final, it is the last one in input order, and the preempted attempts are exactly
\* the N-1 attempts before it.
C2_PlainLastFinal ==
    (StatsRan /\ ~IsScatter(calls)) =>
        /\ FinalSet = {Len(calls)}
        /\ Len(preemptions) = Len(calls) - 1
        /\ PreemptedSet = 1..(Len(calls) - 1)

C2_Witness ==
    /\ stats_pc = "done"
    /\ ~IsScatter(calls)
    /\ Len(calls) >= 3
    /\ Len(preemptions) = 2

\* C3: for a sharded task, the number of final attempts is the number of distinct
\* shard indices of the list, and final plus preempted attempts count the whole list.
C3_ShardCounts ==
    (StatsRan /\ IsScatter(calls)) =>
        /\ Cardinality(FinalSet) = Cardinality(ShardsOf(calls))
        /\ Cardinality(FinalSet) + Len(preemptions) = Len(calls)

C3_Witness ==
    /\ stats_pc = "done"
    /\ IsScatter(calls)
    /\ Cardinality(ShardsOf(calls)) = 2
    /\ Len(preemptions) >= 2

\* C4: for a sharded task, the final attempt of each shard index is the attempt of
\* that index listed latest, and the preempted attempts are exactly the earlier
\* occurrences of each index, so that no attempt is both final and preempted.
C4_PreemptedAreEarlier ==
    (StatsRan /\ IsScatter(calls)) =>
        /\ \A s \in ShardsOf(calls) : successes[s] = MaxOf(OfShard(calls, s))
        /\ PreemptedSet = {k \in 1..Len(calls) : k # MaxOf(OfShard(calls, calls[k].shard))}
        /\ FinalSet \cap PreemptedSet = {}

\* C5: max_preempt_time_h, where get_stats sets it, is the longest duration among
\* the attempts that are not final.
C5_MaxPreemptOverPreempted ==
    (stats_pc = "done" /\ task_row.max_preempt_time_h # NaN) =>
        task_row.max_preempt_time_h =
            MaxOf({Hours(workflow_time(calls[k])) :
                     k \in (1..Len(calls)) \ FinalSet})

----------------------------------------------------------------------------
(* Status resolver: get_sample_status (core.py 396-448) and                *)
(* get_sample_set_status (core.py 451-494)                                 *)

\* Python's `a in b` on strings; a name is the sequence of its characters
IsSubstring(a, b) ==
    \E i \in 0..(Len(b) - Len(a)) : SubSeq(b, i + 1, i + Len(a)) = a

\* [s for s in submissions if configuration in s['methodConfigurationName']]
RECURSIVE FilterByConfiguration(_, _)
FilterByConfiguration(subs, c) ==
    IF subs = <<>> THEN <<>>
    ELSE IF IsSubstring(c, Head(subs).methodConfigurationName)
         THEN <<Head(subs)>> \o FilterByConfiguration(Tail(subs), c)
         ELSE FilterByConfiguration(Tail(subs), c)

\* ts = datetime.timestamp(iso8601.parse_date(s['submissionDate']))
SubmissionTs(s) == convert_time(s.submissionDate)

\* the dict stored for an entity: submission s, its workflow w
StatusRecord(s, w) ==
    [status |-> w.status,
     timestamp |-> SubmissionTs(s),
     submission_id |-> s.submissionId,
     configuration |-> s.methodConfigurationName,
     workflow_id |-> w.workflowId]

\* Replaces without the comparison of timestamps: the submission listed last wins
ReplacesAlways(d, id, s) == TRUE

\* sample_id not in sample_dict or sample_dict[sample_id]['timestamp']<ts
Replaces(d, id, s) == id \notin DOMAIN d \/ d[id].timestamp < SubmissionTs(s)

\* Store updating the status and the timestamp of a record that exists, field by field
StoreStatusOnly(d, id, rec) ==
    [e \in DOMAIN d \cup {id} |->
        IF e # id THEN d[e]
        ELSE IF id \in DOMAIN d
             THEN [d[id] EXCEPT !.status = rec.status, !.timestamp = rec.timestamp]
             ELSE rec]

\* sample_dict[sample_id] = {...}
Store(d, id, rec) == [e \in DOMAIN d \cup {id} |-> IF e = id THEN rec ELSE d[e]]

\* the branch that keys the record by the submission's entity and reads
\* r['workflows'][0] (lines 420-423, 426-429, 439-442, 476-479)
KeepSubmissionEntity(d, s) ==
    IF Replaces(d, s.entityName, s)
    THEN Store(d, s.entityName, StatusRecord(s, s.workflows[1]))
    ELSE d

\* for w in r['workflows'], over the first k workflows: the record is keyed by the
\* workflow's entity (lines 431-437, 481-486)
RECURSIVE KeepWorkflowEntities(_, _, _)
KeepWorkflowEntities(d, s, k) ==
    IF k = 0 THEN d
    ELSE LET prev == KeepWorkflowEntities(d, s, k - 1)
             w == s.workflows[k]
         IN  IF Replaces(prev, w.entityName, s)
             THEN Store(prev, w.entityName, StatusRecord(s, w))
             ELSE prev

\* the loop body of get_sample_status for submission s (lines 418-442)
SampleStatusBody(d, s) ==
    IF s.entityType = "sample" THEN KeepSubmissionEntity(d, s)
    ELSE IF s.entityType = "sample_set"
         THEN IF Len(s.workflows) = 1
              THEN KeepSubmissionEntity(d, s)
              ELSE KeepWorkflowEntities(d, s, Len(s.workflows))
    ELSE IF s.entityType = "participant" THEN KeepSubmissionEntity(d, s)
    ELSE d

\* the workflows of s the loop of lines 481-486 gets through before the assert of
\* line 482 fails (all of them when it never fails)
RECURSIVE MembersBeforeAssert(_, _)
MembersBeforeAssert(s, k) ==
    IF k > Len(s.workflows) THEN Len(s.workflows)
    ELSE IF s.workflows[k].entityType # "sample_set" THEN k - 1
    ELSE MembersBeforeAssert(s, k + 1)

\* how the loop body of get_sample_set_status ends for submission s
SampleSetStatusEnd(s) ==
    IF s.entityType # "sample_set" THEN "valueerror"
    ELSE IF Len(s.workflows) # 1 /\ MembersBeforeAssert(s, 1) < Len(s.workflows)
         THEN "assert"
    ELSE "loop"

\* the loop body of get_sample_set_status for submission s (lines 473-488)
SampleSetStatusBody(d, s) ==
    IF s.entityType = "sample_set"
    THEN IF Len(s.workflows) = 1
         THEN KeepSubmissionEntity(d, s)
         ELSE KeepWorkflowEntities(d, s, MembersBeforeAssert(s, 1))
    ELSE d

\* firecloud.api.list_submissions, the assert on its status code, and the filter
ListSubmissions ==
    /\ res_pc = "list"
    /\ \E code \in {200, 500} :
        IF code = 200
        THEN /\ submissions' = FilterByConfiguration(history, configuration)
             /\ res_pc' = "loop"
        ELSE /\ submissions' = submissions
             /\ res_pc' = "assert"
    /\ sample_dict' = <<>>
    /\ res_k' = 0
    /\ UNCHANGED <<history, configuration, res_fn>>
    /\ UNCHANGED stats_vars
    /\ UNCHANGED rest_vars
    /\ UNCHANGED patch_vars

\* one pass of `for s in submissions` of get_sample_status: get_submission, the
\* assert on its status code, the loop body
get_sample_status ==
    /\ res_pc = "loop"
    /\ res_fn = "sample"
    /\ res_k < Len(submissions)
    /\ \E code \in {200, 500} :
        IF code = 200
        THEN /\ sample_dict' = SampleStatusBody(sample_dict, submissions[res_k + 1])
             /\ res_k' = res_k + 1
             /\ res_pc' = "loop"
        ELSE /\ res_pc' = "assert"
             /\ UNCHANGED <<sample_dict, res_k>>
    /\ UNCHANGED <<history, configuration, res_fn, submissions>>
    /\ UNCHANGED stats_vars
    /\ UNCHANGED rest_vars
    /\ UNCHANGED patch_vars

\* one pass of `for k,s in enumerate(submissions)` of get_sample_set_status
get_sample_set_status ==
    /\ res_pc = "loop"
    /\ res_fn = "sample_set"
    /\ res_k < Len(submissions)
    /\ \E code \in {200, 500} :
        IF code = 200
        THEN LET s == submissions[res_k + 1]
             IN  /\ sample_dict' = SampleSetStatusBody(sample_dict, s)
                 /\ res_pc' = SampleSetStatusEnd(s)
                 /\ res_k' = IF SampleSetStatusEnd(s) = "loop" THEN res_k + 1 ELSE res_k
        ELSE /\ res_pc' = "assert"
             /\ UNCHANGED <<sample_dict, res_k>>
    /\ UNCHANGED <<history, configuration, res_fn, submissions>>
    /\ UNCHANGED stats_vars
    /\ UNCHANGED rest_vars
    /\ UNCHANGED patch_vars

\* status_df = pd.DataFrame(sample_dict).T; return status_df[[...]]: selecting the
\* columns of the frame of an empty dict raises KeyError
StatusReturn ==
    /\ res_pc = "loop"
    /\ res_k = Len(submissions)
    /\ res_pc' = IF DOMAIN sample_dict = {} THEN "keyerror" ELSE "done"
    /\ UNCHANGED <<history, configuration, res_fn, submissions, res_k, sample_dict>>
    /\ UNCHANGED stats_vars
    /\ UNCHANGED rest_vars
    /\ UNCHANGED patch_vars

----------------------------------------------------------------------------
(* The submission histories the resolver is run on *)

\* a workflow of a submission, as get_submission lists it
Workflow(wid, status, etype, ename) ==
    [workflowId |-> wid, status |-> status, entityType |-> etype, entityName |-> ename]

\* the shapes of a submission: entity type and name, and the workflows' entities
ShapeNames ==
    {"sample", "set_shared", "set_members", "set_one_member", "set_of_sets",
     "participant", "pair"}

\* the shapes of the histories patch_attributes is run on, by entity argument
PatchShapes(etype) ==
    IF etype = "sample" THEN {"sample", "sample_e2"} ELSE {"set_shared", "set_shared_g2"}

ShapeEntityType(shape) ==
    CASE shape = "sample" -> "sample"
      [] shape = "sample_e2" -> "sample"
      [] shape = "participant" -> "participant"
      [] shape = "pair" -> "pair"
      [] OTHER -> "sample_set"

ShapeEntityName(shape) ==
    CASE shape = "sample" -> "e1"
      [] shape = "sample_e2" -> "e2"
      [] shape = "set_shared_g2" -> "g2"
      [] shape = "participant" -> "p1"
      [] shape = "pair" -> "x1"
      [] OTHER -> "g1"

\* <<entity type, entity name>> of each workflow
ShapeMembers(shape) ==
    CASE shape = "sample" -> << <<"sample", "e1">> >>
      [] shape = "sample_e2" -> << <<"sample", "e2">> >>
      [] shape = "set_shared_g2" -> << <<"sample_set", "g2">> >>
      [] shape = "participant" -> << <<"participant", "p1">> >>
      [] shape = "pair" -> << <<"pair", "x1">> >>
      [] shape = "set_shared" -> << <<"sample_set", "g1">> >>
      [] shape = "set_one_member" -> << <<"sample", "e1">> >>
      [] shape = "set_members" -> << <<"sample", "e1">>, <<"sample", "e2">> >>
      [] shape = "set_of_sets" -> << <<"sample_set", "g1">>, <<"sample_set", "g2">> >>

\* workflow ids are unique: 10 * submission id + position
WorkflowIdBase == 10

\* a submission with its get_submission response; st[k] is the status of workflow k
Submission(id, ts, shape, cfg, st) ==
    [submissionId |-> id,
     submissionDate |-> ts,
     methodConfigurationName |-> cfg,
     entityType |-> ShapeEntityType(shape),
     entityName |-> ShapeEntityName(shape),
     shape |-> shape,
     workflows |-> [k \in 1..Len(ShapeMembers(shape)) |->
                      Workflow(WorkflowIdBase * id + k, st[k],
                               ShapeMembers(shape)[k][1], ShapeMembers(shape)[k][2])]]

\* configuration names, as character sequences: "C" and "CX"
ConfigNames == {<<"C">>, <<"C", "X">>}

\* the statuses of the workflows of submission id in the resolver's histories
ResolveStatuses(id) ==
    [k \in 1..2 |-> IF (id + k) % 2 = 0 THEN "Succeeded" ELSE "Failed"]

ResolveInit ==
    /\ StatsIdle
    /\ PatchIdle
    /\ RowsIdle
    /\ SubIdle
    /\ CliIdle
    /\ res_fn \in {"sample", "sample_set"}
    /\ configuration \in ConfigNames
    /\ \E n \in 0..MaxSubs :
        \E ts \in [1..n -> 1..MaxTs], sh \in [1..n -> ShapeNames], cf \in [1..n -> ConfigNames] :
            history = [k \in 1..n |-> Submission(k, ts[k], sh[k], cf[k], ResolveStatuses(k))]
    /\ submissions = <<>>
    /\ res_k = 0
    /\ sample_dict = <<>>
    /\ res_pc = "list"

ResolveNext ==
    \/ ListSubmissions
    \/ get_sample_status
    \/ get_sample_set_status
    \/ StatusReturn

SpecResolve == ResolveInit /\ [][ResolveNext]_vars

----------------------------------------------------------------------------
(* Claims on the status resolver (SpecResolve) *)

\* the records a pass over the lone submission s gives: its entities and their records
OwnRecords(s) ==
    IF res_fn = "sample" THEN SampleStatusBody(<<>>, s) ELSE SampleSetStatusBody(<<>>, s)

\* positions of the processed submissions that own entity e
OwnersOf(e) == {k \in 1..res_k : e \in DOMAIN OwnRecords(submissions[k])}

ProcessedEntities == UNION {DOMAIN OwnRecords(submissions[k]) : k \in 1..res_k}

\* C1: whatever the order of the list, the record resolved for an entity is the one
\* of an execution with the greatest submission timestamp among the executions that
\* own the entity.
C1_LatestWins ==
    (res_pc \in {"loop", "done"}) =>
        /\ DOMAIN sample_dict = ProcessedEntities
        /\ \A e \in ProcessedEntities :
            \E k \in OwnersOf(e) :
                /\ \A j \in OwnersOf(e) :
                       SubmissionTs(submissions[j]) <= SubmissionTs(submissions[k])
                /\ sample_dict[e] = OwnRecords(submissions[k])[e]

\* two executions of one entity, the later one listed first, and it is the one kept
C1_Witness ==
    /\ res_pc = "done"
    /\ \E e \in DOMAIN sample_dict :
        \E i \in OwnersOf(e), j \in OwnersOf(e) :
            /\ i < j
            /\ submissions[j].submissionDate < submissions[i].submissionDate
            /\ sample_dict[e].submission_id = submissions[i].submissionId

----------------------------------------------------------------------------
(* The resolver as patch_attributes calls it: a whole pass, every fetch answered 200 *)

StatusBody(fn, d, s) ==
    IF fn = "sample" THEN SampleStatusBody(d, s) ELSE SampleSetStatusBody(d, s)

\* the position of the first submission at which the pass raises, 0 when none does
RECURSIVE FirstRaise(_, _, _)
FirstRaise(fn, subs, k) ==
    IF k > Len(subs) THEN 0
    ELSE IF fn = "sample_set" /\ SampleSetStatusEnd(subs[k]) # "loop" THEN k
    ELSE FirstRaise(fn, subs, k + 1)

RECURSIVE StatusLoop(_, _, _)
StatusLoop(fn, subs, k) ==
    IF k = 0 THEN <<>> ELSE StatusBody(fn, StatusLoop(fn, subs, k - 1), subs[k])

\* the dict of a pass that returns
StatusDict(fn, hist, c) ==
    LET subs == FilterByConfiguration(hist, c)
    IN  StatusLoop(fn, subs, Len(subs))

\* "done" when the pass returns, else the error it raises
StatusEnd(fn, hist, c) ==
    LET subs == FilterByConfiguration(hist, c)
        k == FirstRaise(fn, subs, 1)
    IN  IF k # 0 THEN SampleSetStatusEnd(subs[k])
        ELSE IF DOMAIN StatusLoop(fn, subs, Len(subs)) = {} THEN "keyerror"
        ELSE "done"

----------------------------------------------------------------------------
(* Claims on the shapes, the ties and the filter of the status resolver (SpecResolve) *)

\* the pass is in its loop or has returned: no error was raised
ResolverRunning == res_pc \in {"loop", "done", "keyerror"}

\* the entity kinds each function resolves
SupportedKinds(fn) ==
    IF fn = "sample" THEN {"sample", "sample_set", "participant"} ELSE {"sample_set"}

\* C17: a submission whose entity kind the resolver does not support is rejected
\* with an error: the loop never gets past it.
C17_UnsupportedKindRejected ==
    ResolverRunning =>
        \A k \in 1..res_k : submissions[k].entityType \in SupportedKinds(res_fn)

\* a set submission with one shared run: its one workflow ran on the set itself
SharedRun(s) ==
    /\ s.entityType = "sample_set"
    /\ Len(s.workflows) = 1
    /\ s.workflows[1].entityType = s.entityType
    /\ s.workflows[1].entityName = s.entityName

\* the workflow of submission s that is attributed to id, as the shapes have it
AttributedWorkflows(s, id) ==
    IF s.entityType # "sample_set" \/ SharedRun(s)
    THEN {k \in {1} : id = s.entityName}
    ELSE {k \in 1..Len(s.workflows) : s.workflows[k].entityName = id}

AttributedIds(s) ==
    IF s.entityType # "sample_set" \/ SharedRun(s) THEN {s.entityName}
    ELSE {s.workflows[k].entityName : k \in 1..Len(s.workflows)}

\* C18: a submission of a supported kind is attributed by its shape: a single
\* entity gives one record under its id, a set with one shared run one record
\* under the set's id, a set with per-member runs one record under each member's
\* id (also for one member) and none under the set's id.
C18_AttributedByShape ==
    ResolverRunning =>
        \A k \in 1..res_k :
            LET s == submissions[k]
                own == OwnRecords(s)
            IN  s.entityType \in SupportedKinds(res_fn) =>
                    /\ DOMAIN own = AttributedIds(s)
                    /\ \A id \in DOMAIN own :
                        \E w \in AttributedWorkflows(s, id) :
                            /\ own[id].workflow_id = s.workflows[w].workflowId
                            /\ own[id].status = s.workflows[w].status

\* the orders the platform may list the submissions of h in
Orders(h) ==
    {p \in [1..Len(h) -> 1..Len(h)] : \A i, j \in 1..Len(h) : p[i] = p[j] => i = j}

Reordered(h, p) == [k \in 1..Len(h) |-> h[p[k]]]

\* C19: the records resolved do not depend on the order in which the submissions
\* are listed, also when two executions of an entity carry the same timestamp.
C19_TieOrderIndependent ==
    (res_pc = "done") =>
        \A p \in Orders(history) :
            StatusDict(res_fn, Reordered(history, p), configuration) = sample_dict

\* C20: only executions run under the configuration named by the filter take part
\* in the resolution; none of another configuration gives an entity's record.
C20_OnlyNamedConfiguration ==
    ResolverRunning =>
        /\ \A k \in 1..Len(submissions) :
                submissions[k].methodConfigurationName = configuration
        /\ \A e \in DOMAIN sample_dict : sample_dict[e].configuration = configuration

\* the record of workflow w of submission s, field by field
RecordOf(s, w) ==
    [status |-> s.workflows[w].status,
     timestamp |-> s.submissionDate * SecondsPerTick,
     submission_id |-> s.submissionId,
     configuration |-> s.methodConfigurationName,
     workflow_id |-> s.workflows[w].workflowId]

\* C21: in every state of a resolution pass, each entity's record holds the
\* status, timestamp, submission id, workflow id and configuration of one and the
\* same execution of the list, and the map is empty when the loop starts.
C21_RecordsOfOneExecution ==
    /\ \A e \in DOMAIN sample_dict :
        \E k \in 1..Len(submissions) :
            \E w \in 1..Len(submissions[k].workflows) :
                sample_dict[e] = RecordOf(submissions[k], w)
    /\ (res_pc \in {"list", "loop"} /\ res_k = 0) => sample_dict = <<>>

\* a record was replaced: an execution listed later and submitted later won
C21_Witness ==
    /\ res_pc = "done"
    /\ \E e \in DOMAIN sample_dict :
        \E i \in OwnersOf(e), j \in OwnersOf(e) :
            /\ i < j
            /\ submissions[i].submissionDate < submissions[j].submissionDate
            /\ sample_dict[e] = RecordOf(submissions[j], 1)

\* C23: a get_submission request answered with another code than 200 does not end
\* the pass for the submissions after it: when the pass has ended at a submission
\* with others left, it is the entity check of that submission which ended it.
C23_FailedFetchDoesNotAbort ==
    (res_pc = "assert" /\ res_k + 1 < Len(submissions)) =>
        /\ res_fn = "sample_set"
        /\ SampleSetStatusEnd(submissions[res_k + 1]) = "assert"

----------------------------------------------------------------------------
(* patch_attributes (core.py 497-585): the expected outputs *)

Last(p) == p[Len(p)]

\* r['outputs'] of the method configuration: workflow output -> attribute expression;
\* a dotted name is the sequence of its components
ConfigOutputs ==
    (<<"wf", "align", "out_bam">> :> <<"this", "bam">>)
    @@ (<<"wf", "index", "out_idx">> :> <<"this", "idx">>)

\* j.split('this.')[-1] of the expression this.<attribute>
AfterThis(j) == j[2]

\* output_map = {i.split('.')[-1]: j.split('this.')[-1] for i,j in r['outputs'].items()}
OutputMap ==
    [k \in {Last(i) : i \in DOMAIN ConfigOutputs} |->
        AfterThis(ConfigOutputs[CHOOSE i \in DOMAIN ConfigOutputs : Last(i) = k])]

\* columns = list(output_map.values())
PatchColumns == Range(OutputMap)

----------------------------------------------------------------------------
(* patch_attributes: what one entity's metadata makes it write *)

\* DirectApplies without the test of dry_run
DirectAppliesIgnoringDryRun(meta, dry) == DOMAIN meta.outputs # {}

\* 'outputs' in metadata and len(metadata['outputs'])!=0 and not dry_run
DirectApplies(meta, dry) == DOMAIN meta.outputs # {} /\ ~dry

\* attr = {output_map[k.split('.')[-1]]:t for k,t in metadata['outputs'].items()}
DirectAttr(meta) ==
    [c \in {OutputMap[Last(k)] : k \in DOMAIN meta.outputs} |->
        meta.outputs[CHOOSE k \in DOMAIN meta.outputs : OutputMap[Last(k)] = c]]

\* TaskGate without the test of line 548 that an attribute is null
TaskGateIgnoringMissing(call, row) ==
    /\ call.has_outputs
    /\ \A k \in DOMAIN call.outputs : k \in DOMAIN OutputMap

\* the gates of lines 545-548 on the task's last attempt: it has outputs, every
\* output key is declared, and one of the attributes is null in incomplete_df
TaskGate(call, row) ==
    /\ call.has_outputs
    /\ \A k \in DOMAIN call.outputs : k \in DOMAIN OutputMap
    /\ \E k \in DOMAIN call.outputs : row[OutputMap[k]] = NaN

\* attr = {output_map[i]:j for i,j in metadata['calls'][task][-1]['outputs'].items()}
TaskAttr(call) ==
    [c \in {OutputMap[k] : k \in DOMAIN call.outputs} |->
        call.outputs[CHOOSE k \in DOMAIN call.outputs : OutputMap[k] = c]]

\* the tasks of `for task in metadata['calls']` that pass the gates, in order
RECURSIVE ScanTasks(_, _)
ScanTasks(cs, row) ==
    IF cs = <<>> THEN <<>>
    ELSE IF TaskGate(Head(cs), row)
         THEN <<Head(cs)>> \o ScanTasks(Tail(cs), row)
         ELSE ScanTasks(Tail(cs), row)

\* the branch taken for a sample whose metadata was fetched (lines 540-553)
SamplePath(meta, dry) == IF DirectApplies(meta, dry) THEN "direct" ELSE "scan"

\* the update_sample_attributes calls of lines 540-553, in order
SampleWrites(meta, row, dry) ==
    IF DirectApplies(meta, dry) THEN <<DirectAttr(meta)>>
    ELSE IF dry THEN <<>>
    ELSE LET ts == ScanTasks(meta.calls, row)
         IN  [k \in 1..Len(ts) |-> TaskAttr(ts[k])]

\* the branch taken for a sample set (lines 581-583): there is no scan of the tasks
SampleSetPath(meta, dry) == IF DirectApplies(meta, dry) THEN "direct" ELSE "none"

\* the update_sample_set_attributes calls of lines 581-583
SampleSetWrites(meta, dry) ==
    IF DirectApplies(meta, dry) THEN <<DirectAttr(meta)>> ELSE <<>>

\* the platform's AddUpdateAttribute operations of one update_entity call
ApplyAttr(row, attr) ==
    [c \in DOMAIN row \cup DOMAIN attr |-> IF c \in DOMAIN attr THEN attr[c] ELSE row[c]]

\* the entity's attributes after the first k writes
RECURSIVE ApplyWrites(_, _, _)
ApplyWrites(row, planned, k) ==
    IF k = 0 THEN row ELSE ApplyAttr(ApplyWrites(row, planned, k - 1), planned[k])

\* task_counts[task.split('.')[-1]] += 1 for the first k tasks that pass the gates
RECURSIVE CountTasks(_, _, _)
CountTasks(tc, ts, k) ==
    IF k = 0 THEN tc
    ELSE LET prev == CountTasks(tc, ts, k - 1)
             t == Last(ts[k].task)
         IN  [x \in DOMAIN prev \cup {t} |->
                 IF x = t THEN (IF t \in DOMAIN prev THEN prev[t] + 1 ELSE 1) ELSE prev[x]]

----------------------------------------------------------------------------
(* patch_attributes: the call *)

\* the rows of get_samples() / get_sample_sets(), in index order
EntityOrder(etype) == IF etype = "sample" THEN <<"e1", "e2">> ELSE <<"g1", "g2">>

\* the expected columns the entity frame has: an attribute is a column of the
\* frame when some entity holds it
DfColumns(a) == {c \in PatchColumns : \E e \in DOMAIN a : a[e][c] # NaN}

\* .isnull().any(axis=1)
IsIncomplete(row) == \E c \in PatchColumns : row[c] = NaN

\* the names of set S in index order
RECURSIVE InOrder(_, _)
InOrder(order, S) ==
    IF order = <<>> THEN <<>>
    ELSE IF Head(order) \in S THEN <<Head(order)>> \o InOrder(Tail(order), S)
    ELSE InOrder(Tail(order), S)

Raise(err) == [pc |-> err, inc |-> <<>>, st |-> <<>>, todo |-> <<>>]

\* lines 510-531 for entity='sample'. Selecting a label that the frame lacks raises
\* KeyError; where pandas before 1.0 only warns and fills with NaN (lenient), the
\* call goes on
SampleStart(lenient) ==
    LET present == DfColumns(attrs)
        inc == IF present = {}
               THEN [e \in DOMAIN attrs |-> [c \in PatchColumns |-> NaN]]
               ELSE [e \in {x \in DOMAIN attrs : IsIncomplete(attrs[x])} |-> attrs[e]]
        end == StatusEnd("sample", history, configuration)
        st == StatusDict("sample", history, configuration)
        unknown == DOMAIN inc \ DOMAIN st
    IN  IF present # {} /\ present # PatchColumns THEN Raise("keyerror")
        ELSE IF end # "done" THEN Raise(end)
        ELSE IF unknown # {} /\ (~lenient \/ unknown = DOMAIN inc) THEN Raise("keyerror")
        ELSE [pc |-> "loop", inc |-> inc, st |-> st,
              todo |-> InOrder(EntityOrder("sample"), DOMAIN inc)]

\* lines 561-576 for entity='sample_set': the loop runs over every incomplete set,
\* and only when one of them has a Succeeded latest execution
SampleSetStart(lenient) ==
    LET end == StatusEnd("sample_set", history, configuration)
        st == StatusDict("sample_set", history, configuration)
        present == DfColumns(attrs)
        inc == [e \in {x \in DOMAIN st \cap DOMAIN attrs : IsIncomplete(attrs[x])} |-> attrs[e]]
        error_ix == {e \in DOMAIN inc : st[e].status = "Succeeded"}
    IN  IF end # "done" THEN Raise(end)
        ELSE IF present = {} \/ (present # PatchColumns /\ ~lenient) THEN Raise("keyerror")
        ELSE [pc |-> "loop", inc |-> inc, st |-> st,
              todo |-> IF error_ix # {}
                       THEN InOrder(EntityOrder("sample_set"), DOMAIN inc) ELSE <<>>]

\* the call up to its patching loop: the configuration, the entities, the statuses;
\* a request answered with another code than 200 fails its assert
PatchStart ==
    /\ patch_pc = "start"
    /\ \E code \in {200, 500}, lenient \in BOOLEAN :
        LET o == IF code # 200 THEN Raise("assert")
                 ELSE IF entity = "sample" THEN SampleStart(lenient)
                 ELSE SampleSetStart(lenient)
        IN  /\ patch_pc' = o.pc
            /\ incomplete_df' = o.inc
            /\ status_df' = o.st
            /\ todo' = o.todo
    /\ patch_n' = 0
    /\ task_counts' = <<>>
    /\ UNCHANGED <<attrs, metadata, dry_run, entity, patch_run, ended, writes, steps>>
    /\ UNCHANGED <<history, configuration>>
    /\ UNCHANGED res_loop_vars
    /\ UNCHANGED stats_vars
    /\ UNCHANGED rest_vars

\* get_workflow_metadata(..., submission_id, workflow_id) of the entity's record
MetadataOf(e) == metadata[<<status_df[e].submission_id, status_df[e].workflow_id>>]

\* the update_entity calls of one pass: the first `issued` of planned, the last of
\* them answered 500 when failAt names it
WriteEntries(e, planned, issued, failAt) ==
    [j \in 1..issued |->
        [run |-> patch_run, entity |-> e, attr |-> planned[j],
         before |-> ApplyWrites(attrs[e], planned, j - 1),
         code |-> IF j = failAt THEN 500 ELSE 200]]

\* one pass of the loop: the entity as the platform holds it when the pass starts,
\* the branch taken, the tasks that passed the gates, the updates planned and issued
StepEntry(e, path, scanned, planned, issued) ==
    [run |-> patch_run, entity |-> e, path |-> path, before |-> attrs[e],
     scanned |-> [k \in 1..Len(scanned) |-> scanned[k].task],
     planned |-> planned, issued |-> issued]

\* the writes of one pass: each update answers 200, or the one numbered failAt
\* answers 500 and the assert of update_entity_attributes (line 300) ends the call
IssueWrites(e, path, planned, scanned) ==
    \E failAt \in 0..Len(planned) :
        LET issued == IF failAt = 0 THEN Len(planned) ELSE failAt
            landed == IF failAt = 0 THEN Len(planned) ELSE failAt - 1
        IN  /\ attrs' = [attrs EXCEPT ![e] = ApplyWrites(attrs[e], planned, landed)]
            /\ writes' = writes \o WriteEntries(e, planned, issued, failAt)
            /\ task_counts' = CountTasks(task_counts, scanned,
                                 IF failAt = 0 THEN Len(scanned) ELSE failAt - 1)
            /\ steps' = Append(steps, StepEntry(e, path, scanned, Len(planned), issued))
            /\ patch_pc' = IF failAt = 0 THEN "loop" ELSE "write_assert"
            /\ patch_n' = IF failAt = 0 THEN patch_n + 1 ELSE patch_n

\* one pass of `for n,sample_id in enumerate(incomplete_df.index)` (lines 532-556)
patch_sample ==
    /\ patch_pc = "loop"
    /\ entity = "sample"
    /\ patch_n < Len(todo)
    /\ LET e == todo[patch_n + 1]
       IN  IF e \notin DOMAIN status_df
           THEN /\ patch_pc' = "keyerror"
                /\ UNCHANGED <<attrs, patch_n, task_counts, writes, steps>>
           ELSE \E code \in {200, 500} :
                IF code # 200
                THEN /\ steps' = Append(steps, StepEntry(e, "fetch_failed", <<>>, 0, 0))
                     /\ patch_n' = patch_n + 1
                     /\ UNCHANGED <<attrs, task_counts, writes, patch_pc>>
                ELSE LET meta == MetadataOf(e)
                         path == SamplePath(meta, dry_run)
                     IN  IssueWrites(e, path,
                             SampleWrites(meta, incomplete_df[e], dry_run),
                             IF path = "scan"
                             THEN ScanTasks(meta.calls, incomplete_df[e]) ELSE <<>>)
    /\ UNCHANGED <<metadata, dry_run, entity, patch_run, ended, incomplete_df, status_df, todo>>
    /\ UNCHANGED <<history, configuration>>
    /\ UNCHANGED res_loop_vars
    /\ UNCHANGED stats_vars
    /\ UNCHANGED rest_vars

\* one pass of `for n,sample_set_id in enumerate(incomplete_df.index)` (lines 576-583)
patch_sample_set ==
    /\ patch_pc = "loop"
    /\ entity = "sample_set"
    /\ patch_n < Len(todo)
    /\ LET e == todo[patch_n + 1]
       IN  \E code \in {200, 500} :
            IF code # 200
            THEN /\ patch_pc' = "assert"
                 /\ UNCHANGED <<attrs, patch_n, task_counts, writes, steps>>
            ELSE LET meta == MetadataOf(e)
                 IN  IssueWrites(e, SampleSetPath(meta, dry_run),
                                 SampleSetWrites(meta, dry_run), <<>>)
    /\ UNCHANGED <<metadata, dry_run, entity, patch_run, ended, incomplete_df, status_df, todo>>
    /\ UNCHANGED <<history, configuration>>
    /\ UNCHANGED res_loop_vars
    /\ UNCHANGED stats_vars
    /\ UNCHANGED rest_vars

\* the loop is over: print('Completed patching ...') and return
PatchReturn ==
    /\ patch_pc = "loop"
    /\ patch_n = Len(todo)
    /\ patch_pc' = "done"
    /\ UNCHANGED <<attrs, metadata, dry_run, entity, patch_run, ended, incomplete_df,
                   status_df, todo, patch_n, task_counts, writes, steps>>
    /\ UNCHANGED <<history, configuration>>
    /\ UNCHANGED res_loop_vars
    /\ UNCHANGED stats_vars
    /\ UNCHANGED rest_vars

PatchEnded == patch_pc \in {"done", "assert", "write_assert", "keyerror", "valueerror"}

\* patch_attributes is called again with the same arguments, after a call that
\* returned or that a failed write ended
PatchAgain ==
    /\ patch_pc \in {"done", "write_assert"}
    /\ patch_run < MaxRuns
    /\ patch_run' = patch_run + 1
    /\ ended' = Append(ended, patch_pc)
    /\ patch_pc' = "start"
    /\ incomplete_df' = <<>>
    /\ status_df' = <<>>
    /\ todo' = <<>>
    /\ patch_n' = 0
    /\ task_counts' = <<>>
    /\ UNCHANGED <<attrs, metadata, dry_run, entity, writes, steps>>
    /\ UNCHANGED <<history, configuration>>
    /\ UNCHANGED res_loop_vars
    /\ UNCHANGED stats_vars
    /\ UNCHANGED rest_vars

----------------------------------------------------------------------------
(* The workspaces patch_attributes is run on *)

\* an attribute value that was on the entity before any call
PriorValue == 0

\* the last attempt of a task, metadata['calls'][task][-1]
Call(task, has_outputs, outputs) ==
    [task |-> <<"wf", task>>, has_outputs |-> has_outputs, outputs |-> outputs]

\* the kinds of workflow metadata: the status, the execution-level output map and
\* the tasks. An output's value is the id of the submission that produced it.
\*   full:              Succeeded, both outputs in the execution-level map
\*   partial_map:       Succeeded under a revision of the configuration that
\*                      declared out_bam only
\*   failed_late:       Failed in qc, after align and index completed
\*   failed_undeclared: Failed, align completed with an output the configuration
\*                      does not declare
MetaKinds == {"full", "partial_map", "failed_late", "failed_undeclared"}

MetaStatus(kind) == IF kind \in {"full", "partial_map"} THEN "Succeeded" ELSE "Failed"

Metadata(kind, id) ==
    [status |-> MetaStatus(kind),
     outputs |->
        CASE kind = "full" -> (<<"wf", "out_bam">> :> id) @@ (<<"wf", "out_idx">> :> id)
          [] kind = "partial_map" -> (<<"wf", "out_bam">> :> id)
          [] OTHER -> <<>>,
     calls |->
        CASE kind = "full" ->
                <<Call("align", TRUE, "out_bam" :> id), Call("index", TRUE, "out_idx" :> id)>>
          [] kind = "partial_map" ->
                <<Call("align", TRUE, "out_bam" :> id)>>
          [] kind = "failed_late" ->
                <<Call("align", TRUE, "out_bam" :> id), Call("index", TRUE, "out_idx" :> id),
                  Call("qc", FALSE, <<>>)>>
          [] kind = "failed_undeclared" ->
                <<Call("align", TRUE, ("out_bam" :> id) @@ ("out_log" :> id)),
                  Call("index", FALSE, <<>>)>>]

\* the attributes an entity may hold before the first call
AttrRows ==
    {[c \in PatchColumns |-> NaN],
     [c \in PatchColumns |-> IF c = "bam" THEN PriorValue ELSE NaN],
     [c \in PatchColumns |-> PriorValue]}

PatchInit ==
    /\ StatsIdle
    /\ RowsIdle
    /\ SubIdle
    /\ CliIdle
    /\ res_fn = "sample"
    /\ submissions = <<>>
    /\ res_k = 0
    /\ sample_dict = <<>>
    /\ res_pc = "idle"
    /\ configuration = <<"C">>
    /\ entity \in {"sample", "sample_set"}
    /\ dry_run \in BOOLEAN
    /\ \E n \in 0..MaxPatchSubs :
        \E sh \in [1..n -> PatchShapes(entity)], kd \in [1..n -> MetaKinds] :
            /\ history = [k \in 1..n |->
                            Submission(k, k, sh[k], <<"C">>, <<MetaStatus(kd[k])>>)]
            /\ metadata = [key \in {<<k, WorkflowIdBase * k + 1>> : k \in 1..n} |->
                            Metadata(kd[key[1]], key[1])]
    /\ attrs \in [Range(EntityOrder(entity)) -> AttrRows]
    /\ patch_run = 1
    /\ ended = <<>>
    /\ incomplete_df = <<>>
    /\ status_df = <<>>
    /\ todo = <<>>
    /\ patch_n = 0
    /\ task_counts = <<>>
    /\ writes = <<>>
    /\ steps = <<>>
    /\ patch_pc = "start"

PatchNext ==
    \/ PatchStart
    \/ patch_sample
    \/ patch_sample_set
    \/ PatchReturn
    \/ PatchAgain

SpecPatch == PatchInit /\ [][PatchNext]_vars

----------------------------------------------------------------------------
(* Claims on patch_attributes (SpecPatch) *)

\* the writes and the loop passes of call r
WritesOfRun(r) == {j \in 1..Len(writes) : writes[j].run = r}

StepsOfRun(r) == {j \in 1..Len(steps) : steps[j].run = r}

\* the metadata of the latest execution of entity e (the history does not change)
LatestMetadata(e) ==
    LET rec == StatusDict(entity, history, configuration)[e]
    IN  metadata[<<rec.submission_id, rec.workflow_id>>]

\* the execution-level output map covers every expected attribute
CompleteOutputMap(meta) ==
    PatchColumns \subseteq {OutputMap[Last(k)] : k \in DOMAIN meta.outputs}

\* C6: a call of patch_attributes that follows a call which returned, with every
\* metadata fetch answered and every write landed, issues no attribute write.
C6_SecondRunWritesNothing ==
    \A r \in 2..patch_run :
        (/\ ended[r - 1] = "done"
         /\ \A j \in StepsOfRun(r - 1) : steps[j].path # "fetch_failed")
        => WritesOfRun(r) = {}

\* C7: every attribute patch_attributes writes was null on the entity when the
\* write was issued.
C7_WritesOnlyMissing ==
    \A j \in 1..Len(writes) :
        \A c \in DOMAIN writes[j].attr : writes[j].before[c] = NaN

\* C8: with dry_run=True no attribute update is issued, whatever the entity kind
\* and the metadata.
C8_DryRunWritesNothing ==
    dry_run =>
        /\ writes = <<>>
        /\ \A j \in 1..Len(steps) : steps[j].issued = 0

\* a dry run over a sample whose latest execution carries an execution-level output
\* map and whose tasks have repairs to make
C8_Witness ==
    /\ dry_run
    /\ patch_pc = "done"
    /\ entity = "sample"
    /\ \E t \in DOMAIN task_counts : task_counts[t] >= 1
    /\ \E j \in StepsOfRun(patch_run) :
        /\ steps[j].path = "scan"
        /\ DOMAIN LatestMetadata(steps[j].entity).outputs # {}

\* C9: a failed attribute write does not stop the call while repairs are left: when
\* the call has ended on a failed write, no write of the entity's later tasks and no
\* later entity with a resolved execution is left.
C9_FailedWriteDoesNotBlock ==
    (patch_pc = "write_assert") =>
        /\ steps[Len(steps)].issued = steps[Len(steps)].planned
        /\ \A k \in (patch_n + 2)..Len(todo) : todo[k] \notin DOMAIN status_df

\* C10: an entity is repaired directly from the execution-level output map only when
\* its latest execution is Succeeded with a complete output map; otherwise the tasks
\* are scanned.
C10_DirectOnlyWhenComplete ==
    \A j \in 1..Len(steps) :
        LET meta == LatestMetadata(steps[j].entity)
            direct == meta.status = "Succeeded" /\ CompleteOutputMap(meta)
        IN  steps[j].path # "fetch_failed" =>
                /\ steps[j].path = "direct" => direct
                /\ ~direct => steps[j].path = "scan"

\* the tasks of the latest execution of step j's entity that a repair is due for:
\* the task has outputs, each output key is declared in the configuration, and an
\* attribute one of them maps to is missing on the entity
DueTasks(j) ==
    LET cs == LatestMetadata(steps[j].entity).calls
        due(c) == /\ c.has_outputs
                  /\ DOMAIN c.outputs \subseteq {Last(i) : i \in DOMAIN ConfigOutputs}
                  /\ \E k \in DOMAIN c.outputs : steps[j].before[OutputMap[k]] = NaN
    IN  SelectSeq(cs, due)

\* the updates issued in step j, in order
WritesOfStep(j) ==
    SelectSeq(writes, LAMBDA w : w.run = steps[j].run /\ w.entity = steps[j].entity)

TaskOutputsOf(meta) ==
    {OutputMap[o] : o \in UNION {IF meta.calls[k].has_outputs
                                 THEN DOMAIN meta.calls[k].outputs \cap DOMAIN OutputMap
                                 ELSE {} : k \in 1..Len(meta.calls)}}

\* C30: with entity='sample_set', when the call has returned, a sample set whose
\* latest execution failed without an execution-level output map holds every
\* attribute that a completed task of that execution produced.
C30_SetRecoversTaskOutputs ==
    (entity = "sample_set" /\ ~dry_run /\ patch_pc = "done") =>
        \A e \in DOMAIN attrs \cap DOMAIN status_df :
            LET meta == LatestMetadata(e)
            IN  (meta.status = "Failed" /\ DOMAIN meta.outputs = {}) =>
                    \A c \in TaskOutputsOf(meta) : attrs[e][c] # NaN

----------------------------------------------------------------------------
(* get_stats over the executions of its argument: core.py 695-778.  The    *)
(* rows of one task of one execution are the part above (GetStatsTask).    *)

MaxExecs == 3       \* most rows of the status_df handed to get_stats

\* the workflow names, in the order np.unique sorts them
WorkflowNames == <<"align_wf", "qc_wf">>

ExecStatuses == {"Succeeded", "Failed"}

\* line 700: status_df = status_df[status_df['status']=='Succeeded']
SucceededRows(rows) == {i \in 1..Len(rows) : rows[i].status = "Succeeded"}

\* lines 717 and 723: np.unique(workflows), the sorted names of the rows kept
UniqueWorkflows(rows) ==
    LET present(k) == \E i \in SucceededRows(rows) :
                          rows[i].workflowName = WorkflowNames[k]
        F[k \in 0..Len(WorkflowNames)] ==
            IF k = 0 THEN <<>>
            ELSE IF present(k) THEN Append(F[k - 1], WorkflowNames[k]) ELSE F[k - 1]
    IN  F[Len(WorkflowNames)]

\* line 724: workflow_status_df = status_df[workflows==w]
RowsOfWorkflow(rows, w) == {i \in SucceededRows(rows) : rows[i].workflowName = w}

Unbound == [bound |-> FALSE, index |-> {}]

\* lines 700-719: the filter, the metadata of every row kept (the assert of
\* line 707 fails on an answer other than 200), and the names of line 717
FetchMetadata ==
    /\ rows_pc = "fetch"
    /\ \E answered \in BOOLEAN :
           IF ~answered /\ SucceededRows(status_rows) # {}
           THEN /\ rows_pc' = "assert"
                /\ wf_todo' = wf_todo
           ELSE /\ rows_pc' = "workflows"
                /\ wf_todo' = UniqueWorkflows(status_rows)
    /\ UNCHANGED <<status_rows, workflow_status_df>>
    /\ UNCHANGED <<stats_vars, res_vars, patch_vars, sub_vars, cli_vars>>

\* lines 723-776: one pass of `for w in np.unique(workflows)`; the name
\* workflow_status_df is bound anew in every pass
StatsWorkflow ==
    /\ rows_pc = "workflows"
    /\ wf_todo # <<>>
    /\ workflow_status_df' = [bound |-> TRUE,
                               index |-> RowsOfWorkflow(status_rows, Head(wf_todo))]
    /\ wf_todo' = Tail(wf_todo)
    /\ UNCHANGED <<status_rows, rows_pc>>
    /\ UNCHANGED <<stats_vars, res_vars, patch_vars, sub_vars, cli_vars>>

\* line 778: return workflow_status_df, task_dfs; the name is unbound when
\* the loop made no pass (UnboundLocalError)
StatsReturn ==
    /\ rows_pc = "workflows"
    /\ wf_todo = <<>>
    /\ rows_pc' = IF workflow_status_df.bound THEN "returned" ELSE "unbound"
    /\ UNCHANGED <<status_rows, wf_todo, workflow_status_df>>
    /\ UNCHANGED <<stats_vars, res_vars, patch_vars, sub_vars, cli_vars>>

RowsInit ==
    /\ StatsIdle
    /\ ResIdle
    /\ PatchIdle
    /\ SubIdle
    /\ CliIdle
    /\ \E n \in 0..MaxExecs :
           \E st \in [1..n -> ExecStatuses] :
               \E wn \in [1..n -> Range(WorkflowNames)] :
                   status_rows = [i \in 1..n |-> [status |-> st[i], workflowName |-> wn[i]]]
    /\ wf_todo = <<>>
    /\ workflow_status_df = Unbound
    /\ rows_pc = "fetch"

RowsNext == FetchMetadata \/ StatsWorkflow \/ StatsReturn

SpecRows == RowsInit /\ [][RowsNext]_vars

\* C29: the frame get_stats returns has one row for every Succeeded
\* execution of its input and no other row, also when the Succeeded
\* executions belong to more than one workflow name.
C29_RowsOfSucceeded ==
    rows_pc = "returned" =>
        workflow_status_df.index = SucceededRows(status_rows)

----------------------------------------------------------------------------
(* lapdog submissions: lapdog.py cmd_submissions 774-788 over core.py      *)
(* get_submission_status 361-393                                           *)

MaxListed == 2      \* most submissions the workspace lists

SubEntities == {"e1", "e2"}

SubConfigs == {"cfgA", "cfgB"}

NoArg == ""         \* an option left out: None, which `if args.x:` skips

\* core.py 391-392: df[(df['Running']!=0) | (df['Submitted']!=0)]
FilterActive(rows) == SelectSeq(rows, LAMBDA s : s.Running # 0 \/ s.Submitted # 0)

\* core.py 361-393 once the listing is in: the rows in date order, the
\* filter of lines 391-392, and the sort by date, latest first
get_submission_status(rows, filter_active) ==
    LET df == IF filter_active THEN FilterActive(rows) ELSE rows
    IN  [k \in 1..Len(df) |-> df[Len(df) + 1 - k]]

\* lapdog.py 776-787: the three optional filters
FilterByArgs(df, args) ==
    LET byId == IF args.id # NoArg
                THEN SelectSeq(df, LAMBDA s : s.submission_id = args.id) ELSE df
        byConfig == IF args.config # NoArg
                    THEN SelectSeq(byId, LAMBDA s : s.configuration = args.config) ELSE byId
    IN  IF args.entity # NoArg
        THEN SelectSeq(byConfig, LAMBDA s : s.entity_id = args.entity) ELSE byConfig

\* lapdog.py 774-788: the whole command.  The listing must answer 200
\* (core.py 366), and an empty listing has no entity_id column to index by
\* (core.py 387)
cmd_submissions ==
    /\ sub_pc = "start"
    /\ \E answered \in BOOLEAN :
           IF ~answered
           THEN sub_pc' = "assert" /\ displayed' = displayed
           ELSE IF listed = <<>>
           THEN sub_pc' = "keyerror" /\ displayed' = displayed
           ELSE /\ sub_pc' = "printed"
                /\ displayed' = FilterByArgs(
                                    get_submission_status(listed, sub_args.done), sub_args)
    /\ UNCHANGED <<listed, sub_args>>
    /\ UNCHANGED <<stats_vars, res_vars, patch_vars, rows_vars, cli_vars>>

\* the submission ids are those of the listing, which is in date order
ListedRow(k, e, c, r, q) ==
    [submission_id |-> "s" \o ToString(k), entity_id |-> e, configuration |-> c,
     Running |-> r, Submitted |-> q]

SubInit ==
    /\ StatsIdle
    /\ ResIdle
    /\ PatchIdle
    /\ RowsIdle
    /\ CliIdle
    /\ \E n \in 0..MaxListed :
           \E e \in [1..n -> SubEntities] :
               \E c \in [1..n -> SubConfigs] :
                   \E r \in [1..n -> 0..1] :
                       \E q \in [1..n -> 0..1] :
                           listed = [k \in 1..n |-> ListedRow(k, e[k], c[k], r[k], q[k])]
    /\ \E d \in BOOLEAN :
           \E i \in {NoArg, "s1"} :
               \E c \in {NoArg, "cfgA"} :
                   \E e \in {NoArg, "e1"} :
                       sub_args = [done |-> d, id |-> i, config |-> c, entity |-> e]
    /\ displayed = <<>>
    /\ sub_pc = "start"

SubNext == cmd_submissions

SpecSubmissions == SubInit /\ [][SubNext]_vars

\* a submission has finished when none of its workflows is Running or Submitted
Finished(s) == s.Running = 0 /\ s.Submitted = 0

\* C27: with -d/--done the command displays exactly the finished
\* submissions that pass the other filters: none that still has a Running or
\* Submitted workflow, and every finished one.
C27_DoneShowsFinished ==
    (sub_pc = "printed" /\ sub_args.done) =>
        Range(displayed) =
            {s \in Range(FilterByArgs(listed, sub_args)) : Finished(s)}

----------------------------------------------------------------------------
(* lapdog invocations side by side: lapdog.py load_data 26-31,             *)
(* cmd_add_workspace 415-458, cmd_run 646-772, cmd_exec 987-1176, and      *)
(* core.py create_submission 1085-1094.  Every invocation is a process of  *)
(* its own; they share the data file and the platform.                     *)

MaxPolls == 2       \* count of a wait loop is kept up to here

Procs == {"p1", "p2"}

NoAfter == "none"   \* --after left out: args.after is None

AwaitedId == "s0"   \* the id of the platform's submission that --after names

\* lapdog.py 684: the temporary id of an invocation
TmpId(p) == "tmp::" \o p

IsTmp(after) == \E p \in Procs : after = TmpId(p)

EmptyData == [workspaces |-> {}, executions |-> {}, submissions |-> <<>>]

MissingFile == [state |-> "missing", contents |-> EmptyData]

\* open(data_path, 'w') leaves the file empty until json.dump has written
PartialFile == [state |-> "partial", contents |-> EmptyData]

WrittenFile(data) == [state |-> "written", contents |-> data]

\* lapdog.py 26-31: FileNotFoundError gives {}; a file that is being
\* rewritten does not parse and json.load raises
Loadable(file) == file.state # "partial"

load_data(file) == IF file.state = "missing" THEN EmptyData ELSE file.contents

\* core.py 1085-1094: create_submission has no return statement
None == "None"

create_submission(status_code) == None

\* lapdog.py 454-457, 770, 1172: the key an invocation adds to what it loaded
AddEntry(data, p, result) ==
    CASE cmd[p].name = "add_workspace" ->
            [data EXCEPT !.workspaces = @ \cup {"ws_" \o p}]
      [] cmd[p].name = "exec" ->
            [data EXCEPT !.executions = @ \cup {"exec_" \o p}]
      [] OTHER ->
            [data EXCEPT !.submissions = (TmpId(p) :> result) @@ @]

HasEntry(data, p) ==
    CASE cmd[p].name = "add_workspace" -> ("ws_" \o p) \in data.workspaces
      [] cmd[p].name = "exec" -> ("exec_" \o p) \in data.executions
      [] OTHER -> TmpId(p) \in DOMAIN data.submissions

\* lapdog.py 719, 748: running = response.json()['status'] != 'Done'
Running(response) == response.status # "Done"

\* a variant that takes every workflow for Succeeded
SucceededUnchecked(response) == TRUE

\* lapdog.py 720-723, 749-752: succeeded, over the workflows of the response
Succeeded(response) ==
    \A k \in 1..Len(response.workflows) : response.workflows[k].status = "Succeeded"

Seen(response) == [running |-> Running(response), succeeded |-> Succeeded(response)]

\* lapdog.py 696-703, 731-738: count selects the sleep and is added to
CountUp(count) == IF count < MaxPolls THEN count + 1 ELSE count

cli_rest == <<stats_vars, res_vars, patch_vars, rows_vars, sub_vars>>

\* cmd_add_workspace 415-446, cmd_exec 987-1167: the part before the data
\* file is touched; it leaves with sys.exit on a bad argument
CmdStart(p) ==
    /\ cli_pc[p] = "start"
    /\ cmd[p].name \in {"add_workspace", "exec"}
    /\ \E valid \in BOOLEAN :
           cli_pc' = [cli_pc EXCEPT ![p] = IF valid THEN "save" ELSE "exit_args"]
    /\ UNCHANGED <<data_file, awaited, accepted, cmd, cli_data, cli_after, cli_count, cli_seen>>
    /\ UNCHANGED cli_rest

\* cmd_run 646-693: the configuration and the entity are looked up, the
\* data file is loaded and the temporary id chosen
RunStart(p) ==
    /\ cli_pc[p] = "start"
    /\ cmd[p].name = "run"
    /\ \E valid \in BOOLEAN :
           IF ~valid
           THEN /\ cli_pc' = [cli_pc EXCEPT ![p] = "exit_args"]
                /\ cli_data' = cli_data
           ELSE IF ~Loadable(data_file)
           THEN /\ cli_pc' = [cli_pc EXCEPT ![p] = "jsonerror"]
                /\ cli_data' = cli_data
           ELSE /\ cli_data' = [cli_data EXCEPT ![p] = load_data(data_file)]
                /\ cli_pc' = [cli_pc EXCEPT ![p] =
                                  IF cli_after[p] = NoAfter THEN "create"
                                  ELSE IF IsTmp(cli_after[p]) THEN "wait_tmp"
                                  ELSE "fetch"]
    /\ UNCHANGED <<data_file, awaited, accepted, cmd, cli_after, cli_count, cli_seen>>
    /\ UNCHANGED cli_rest

\* cmd_run 694-704 and 709-714: the test of the first wait loop; the loop
\* is left with the real id, or count is added to and the invocation sleeps
TmpPoll(p) ==
    /\ cli_pc[p] = "wait_tmp"
    /\ IF cli_after[p] \in DOMAIN cli_data[p].submissions
       THEN /\ cli_after' = [cli_after EXCEPT ![p] = cli_data[p].submissions[cli_after[p]]]
            /\ cli_pc' = [cli_pc EXCEPT ![p] = "fetch"]
            /\ cli_count' = cli_count
       ELSE /\ cli_count' = [cli_count EXCEPT ![p] = CountUp(@)]
            /\ cli_pc' = [cli_pc EXCEPT ![p] = "sleep_tmp"]
            /\ cli_after' = cli_after
    /\ UNCHANGED <<data_file, awaited, accepted, cmd, cli_data, cli_seen>>
    /\ UNCHANGED cli_rest

\* cmd_run 705: after the sleep, data = load_data()
TmpReload(p) ==
    /\ cli_pc[p] = "sleep_tmp"
    /\ IF Loadable(data_file)
       THEN /\ cli_data' = [cli_data EXCEPT ![p] = load_data(data_file)]
            /\ cli_pc' = [cli_pc EXCEPT ![p] = "wait_tmp"]
       ELSE /\ cli_data' = cli_data
            /\ cli_pc' = [cli_pc EXCEPT ![p] = "jsonerror"]
    /\ UNCHANGED <<data_file, awaited, accepted, cmd, cli_after, cli_count, cli_seen>>
    /\ UNCHANGED cli_rest

\* where cmd_run goes on what it computed from a response
AfterResponse(seen) ==
    IF seen.running THEN "wait_done"
    ELSE IF seen.succeeded THEN "create"
    ELSE "exit_failed"

\* cmd_run 715-728: the first request for the awaited submission
RunFetch(p) ==
    /\ cli_pc[p] = "fetch"
    /\ \E found \in BOOLEAN :
           IF ~found
           THEN /\ cli_pc' = [cli_pc EXCEPT ![p] = "exit_fetch"]
                /\ UNCHANGED <<cli_seen, cli_count>>
           ELSE /\ cli_seen' = [cli_seen EXCEPT ![p] = Seen(awaited)]
                /\ cli_pc' = [cli_pc EXCEPT ![p] = AfterResponse(Seen(awaited))]
                /\ cli_count' = [cli_count EXCEPT ![p] = 0]
    /\ UNCHANGED <<data_file, awaited, accepted, cmd, cli_data, cli_after>>
    /\ UNCHANGED cli_rest

\* cmd_run 731-740: `while running` is entered, count is added to and the
\* invocation sleeps
DonePoll(p) ==
    /\ cli_pc[p] = "wait_done"
    /\ cli_count' = [cli_count EXCEPT ![p] = CountUp(@)]
    /\ cli_pc' = [cli_pc EXCEPT ![p] = "sleep_done"]
    /\ UNCHANGED <<data_file, awaited, accepted, cmd, cli_data, cli_after, cli_seen>>
    /\ UNCHANGED cli_rest

\* cmd_run 741-756: after the sleep, the request, and the test after the loop
DoneFetch(p) ==
    /\ cli_pc[p] = "sleep_done"
    /\ \E found \in BOOLEAN :
           IF ~found
           THEN /\ cli_pc' = [cli_pc EXCEPT ![p] = "exit_fetch"]
                /\ cli_seen' = cli_seen
           ELSE /\ cli_seen' = [cli_seen EXCEPT ![p] = Seen(awaited)]
                /\ cli_pc' = [cli_pc EXCEPT ![p] = AfterResponse(Seen(awaited))]
    /\ UNCHANGED <<data_file, awaited, accepted, cmd, cli_data, cli_after, cli_count>>
    /\ UNCHANGED cli_rest

\* cmd_run 756-766: the submission is created, and the invocation leaves
\* when create_submission returned None
RunCreate(p) ==
    /\ cli_pc[p] = "create"
    /\ \E status_code \in {201, 400} :
           /\ accepted' = IF status_code = 201 THEN accepted \cup {p} ELSE accepted
           /\ cli_pc' = [cli_pc EXCEPT ![p] =
                             IF create_submission(status_code) = None
                             THEN "exit_create" ELSE "save"]
    /\ UNCHANGED <<data_file, awaited, cmd, cli_data, cli_after, cli_count, cli_seen>>
    /\ UNCHANGED cli_rest

\* lapdog.py 448, 767, 1169: data = load_data()
LoadForSave(p) ==
    /\ cli_pc[p] = "save"
    /\ IF Loadable(data_file)
       THEN /\ cli_data' = [cli_data EXCEPT ![p] = load_data(data_file)]
            /\ cli_pc' = [cli_pc EXCEPT ![p] = "write"]
       ELSE /\ cli_data' = cli_data
            /\ cli_pc' = [cli_pc EXCEPT ![p] = "jsonerror"]
    /\ UNCHANGED <<data_file, awaited, accepted, cmd, cli_after, cli_count, cli_seen>>
    /\ UNCHANGED cli_rest

\* lapdog.py 449-457, 768-771, 1170-1173: the key is added to the copy and
\* the file opened for writing
OpenForWrite(p) ==
    /\ cli_pc[p] = "write"
    /\ cli_data' = [cli_data EXCEPT ![p] = AddEntry(@, p, create_submission(201))]
    /\ data_file' = PartialFile
    /\ cli_pc' = [cli_pc EXCEPT ![p] = "dump"]
    /\ UNCHANGED <<awaited, accepted, cmd, cli_after, cli_count, cli_seen>>
    /\ UNCHANGED cli_rest

\* lapdog.py 458, 772, 1174: json.dump, and the file is closed
DumpData(p) ==
    /\ cli_pc[p] = "dump"
    /\ data_file' = WrittenFile(cli_data[p])
    /\ cli_pc' = [cli_pc EXCEPT ![p] = "done"]
    /\ UNCHANGED <<awaited, accepted, cmd, cli_data, cli_after, cli_count, cli_seen>>
    /\ UNCHANGED cli_rest

\* the platform's submission, as get_submission answers
Response(status, last) ==
    [status |-> status, workflows |-> <<[status |-> "Succeeded"], [status |-> last]>>]

StillRunning == Response("Running", "Running")

Terminal == {Response("Done", "Succeeded"), Response("Done", "Failed"),
             Response("Aborted", "Aborted")}

\* the platform: the awaited submission ends, in its own time
PlatformStep ==
    /\ awaited = StillRunning
    /\ awaited' \in Terminal
    /\ UNCHANGED <<data_file, accepted, cmd, cli_pc, cli_data, cli_after, cli_count, cli_seen>>
    /\ UNCHANGED cli_rest

Commands ==
    {[name |-> n, after |-> NoAfter] : n \in {"add_workspace", "exec", "run"}}
        \cup {[name |-> "run", after |-> AwaitedId]}

\* cmd_run prints its temporary id only when it has --after itself (line
\* 688), so only such a run can be waited for, by a later invocation
Later(first) ==
    Commands \cup IF first.name = "run" /\ first.after # NoAfter
                  THEN {[name |-> "run", after |-> TmpId("p1")]} ELSE {}

CliInit ==
    /\ StatsIdle
    /\ ResIdle
    /\ PatchIdle
    /\ RowsIdle
    /\ SubIdle
    /\ data_file \in {MissingFile,
                       WrittenFile([EmptyData EXCEPT !.workspaces = {"ws_old"}])}
    /\ awaited \in {StillRunning} \cup Terminal
    /\ accepted = {}
    /\ \E first \in Commands :
           \E second \in Later(first) :
               cmd = [p \in Procs |-> IF p = "p1" THEN first ELSE second]
    /\ cli_pc = [p \in Procs |-> "start"]
    /\ cli_data = [p \in Procs |-> EmptyData]
    /\ cli_after = [p \in Procs |-> cmd[p].after]
    /\ cli_count = [p \in Procs |-> 0]
    /\ cli_seen = [p \in Procs |-> [running |-> FALSE, succeeded |-> FALSE]]

CliStep(p) ==
    \/ CmdStart(p)
    \/ RunStart(p)
    \/ TmpPoll(p)
    \/ TmpReload(p)
    \/ RunFetch(p)
    \/ DonePoll(p)
    \/ DoneFetch(p)
    \/ RunCreate(p)
    \/ LoadForSave(p)
    \/ OpenForWrite(p)
    \/ DumpData(p)

CliNext == (\E p \in Procs : CliStep(p)) \/ PlatformStep

SpecCli == CliInit /\ [][CliNext]_vars

\* every invocation is a process that keeps running; the platform owes nothing
SpecCliFair == SpecCli /\ \A p \in Procs : WF_vars(CliStep(p))

----------------------------------------------------------------------------
(* Claims about the invocations *)

Left == {"exit_args", "exit_fetch", "exit_failed", "exit_create", "jsonerror", "done"}

InTmpLoop(p) == cli_pc[p] \in {"wait_tmp", "sleep_tmp"}

InDoneLoop(p) == cli_pc[p] \in {"wait_done", "sleep_done"}

\* C24: each of the two wait loops of cmd_run comes to an end after a
\* bounded number of polls, whether or not what it waits for ever happens.
C24_WaitLoopsEnd ==
    \A p \in Procs :
        /\ InTmpLoop(p) ~> ~InTmpLoop(p)
        /\ InDoneLoop(p) ~> ~InDoneLoop(p)

\* C25: once all the invocations have left, the data file holds the entry
\* of every invocation that wrote it.
C25_NoLostUpdate ==
    (\A p \in Procs : cli_pc[p] \in Left) =>
        \A p \in Procs :
            cli_pc[p] = "done" => HasEntry(load_data(data_file), p)

\* C26: once the run that owns a temporary id has had its submission
\* created on the platform, a run waiting for this temporary id leaves its
\* wait loop.
C26_WaiterReleased ==
    \A p \in Procs : \A q \in Procs :
        (p \in accepted /\ cmd[q].after = TmpId(p) /\ InTmpLoop(q))
            ~> ~InTmpLoop(q)

Creating(p) == cli_pc[p] \in {"create", "exit_create", "save", "write", "dump", "done"}

\* C28: a run with --after is at or past the creation of its submission
\* only when it has seen the awaited submission Done with every workflow
\* Succeeded, which the platform's submission then is; a run that left
\* because the awaited submission failed or could not be fetched has
\* created no submission and has no entry in the data file.
C28_CreatesOnlyAfterSuccess ==
    \A p \in Procs :
        (cmd[p].name = "run" /\ cmd[p].after # NoAfter) =>
            /\ (Creating(p) \/ p \in accepted) =>
                   /\ cli_seen[p] = [running |-> FALSE, succeeded |-> TRUE]
                   /\ awaited.status = "Done"
                   /\ \A k \in 1..Len(awaited.workflows) :
                          awaited.workflows[k].status = "Succeeded"
            /\ cli_pc[p] \in {"exit_failed", "exit_fetch"} =>
                   /\ p \notin accepted
                   /\ ~HasEntry(load_data(data_file), p)

\* a run that waited for the awaited submission and then had its own created
C28_Witness ==
    \E p \in Procs :
        /\ cmd[p].after = AwaitedId
        /\ cli_count[p] >= 1
        /\ p \in accepted
        /\ cli_pc[p] = "exit_create"

====
